---- MODULE Spec2Model ----
(***************************************************************************)
(* The todo data-access layer of scripts/todo-list.js (class ToDoListData) *)
(* over the host's per-user flag store.                                    *)
(*                                                                         *)
(* Every operation of ToDoListData runs synchronously up to its setFlag    *)
(* call; setFlag returns a promise and the write reaches the store later.  *)
(* The model keeps the writes in flight in `pending` and applies them one  *)
(* at a time, in any order, with the action setFlag.                       *)
(***************************************************************************)
EXTENDS Naturals, FiniteSets, Sequences, TLC

VARIABLES
    flags,      \* per known user: the value of the flag todo-list.todos
    pending,    \* setFlag writes issued and not yet applied by the store
    issued,     \* the ids randomID has returned so far
    ops,        \* number of ToDoListData calls made so far
    last        \* the call or store write that produced this state

vars == <<flags, pending, issued, ops, last>>

----------------------------------------------------------------------------
(* Bounds of the model *)

MaxOps == 3         \* ToDoListData calls in one behaviour
MaxPending == 2     \* writes in flight at the same time

----------------------------------------------------------------------------
(* Values *)

UserOrder == <<"u1", "u2">>                 \* game.users, in iteration order
Users == {UserOrder[i] : i \in 1..Len(UserOrder)}
UnknownUser == "ux"                         \* an id game.users.get() does not know
UserArgs == Users \cup {UnknownUser}
Ids == {"a", "b"}                           \* the strings randomID can return
Fields == {"id", "userId", "label", "isDone"}
Absent == "absent"                          \* a property the object does not have

\* A JS object with the properties of a ToDo; Absent marks a missing property.
Obj(id, userId, label, isDone) ==
    [id |-> id, userId |-> userId, label |-> label, isDone |-> isDone]

EmptyObj == Obj(Absent, Absent, Absent, Absent)
Null == [f \in Fields |-> "null"]           \* the value null
UndefinedToDo == [f \in Fields |-> "undefined"]    \* undefined, where a ToDo is read

\* The names the object allToDos returns inherits from Object.prototype:
\* obj[name] is a function (Object.prototype itself for __proto__), which has
\* none of the properties of a ToDo.
ObjectPrototypeNames ==
    {"constructor", "hasOwnProperty", "isPrototypeOf", "propertyIsEnumerable",
     "toLocaleString", "toString", "valueOf", "__proto__",
     "__defineGetter__", "__defineSetter__", "__lookupGetter__", "__lookupSetter__"}
InheritedMember == EmptyObj

\* x.userId throws a TypeError
IsNullish(x) == x \in {Null, UndefinedToDo}

EmptyMap == [k \in {} |-> EmptyObj]         \* {}
Undefined == [defined |-> FALSE, todos |-> EmptyMap]
Mapping(m) == [defined |-> TRUE, todos |-> m]

\* {...base, ...over}
Spread(base, over) ==
    [f \in Fields |-> IF over[f] # Absent THEN over[f] ELSE base[f]]

\* {...acc, ...m} on mappings from id to ToDo
SpreadMap(acc, m) ==
    [k \in DOMAIN acc \cup DOMAIN m |-> IF k \in DOMAIN m THEN m[k] ELSE acc[k]]

----------------------------------------------------------------------------
(* Inputs of the calls *)

\* The toDoData / updateData objects callers pass: a partial one, and one that
\* carries id, userId and isDone itself.
ToDoData == {Obj(Absent, Absent, "x", Absent), Obj("b", "u2", "y", "true")}

\* `-=${toDoId}`
DeletionKey(toDoId) == "-=" \o toDoId

\* The updateData mappings passed to updateUserToDos (the expanded form data).
UserToDosData ==
    {("a" :> Obj("a", "u2", "y", "true")) @@ ("b" :> Obj("b", "u2", "x", "false")),
     "b" :> Obj(Absent, Absent, "x", Absent),
     "a" :> Null,
     DeletionKey("a") :> Null}

\* The toDoId arguments: ids randomID can return (stored or not), and a name
\* that is no id but that every object inherits.
ToDoIdArgs == Ids \cup {"constructor"}

----------------------------------------------------------------------------
(* The host's flag store *)

KeyNames == Ids \cup UserArgs
IsDeletionKey(key) == \E n \in KeyNames : key = DeletionKey(n)

\* user.setFlag(ToDoList.ID, ToDoList.FLAGS.TODOS, value) once it reaches the
\* store. The store is the host's; this is its contract: merge-on-write at the
\* level of the keys of the todos mapping. A key of value replaces the record
\* at that key only, the key `-=k` removes k, and the flag is defined after it.
MergeOnWrite(cur, value) ==
    LET old == cur.todos
        dels == {n \in KeyNames : DeletionKey(n) \in DOMAIN value}
        sets == {k \in DOMAIN value : ~IsDeletionKey(k)}
        keys == (DOMAIN old \cup sets) \ dels
    IN Mapping([k \in keys |-> IF k \in sets THEN value[k] ELSE old[k]])

\* game.users.get(userId) finds a user
HasUser(userId) == userId \in Users

----------------------------------------------------------------------------
(* ToDoListData: the read side *)

getToDosForUserEmpty(userId) ==
    IF HasUser(userId) /\ flags[userId].defined THEN flags[userId] ELSE Mapping(EmptyMap)

\* game.users.get(userId)?.getFlag(ToDoList.ID, ToDoList.FLAGS.TODOS)
getToDosForUser(userId) ==
    IF HasUser(userId) THEN flags[userId] ELSE Undefined

\* one step of the reduce callback: {...accumulator, ...userTodos}
ReduceStep(accumulator, userTodos) == SpreadMap(accumulator, userTodos.todos)

RECURSIVE ReduceUsers(_)
ReduceUsers(n) ==
    IF n = 0 THEN EmptyMap
    ELSE ReduceStep(ReduceUsers(n - 1), getToDosForUser(UserOrder[n]))

RECURSIVE ReduceUsersFirstWins(_)
ReduceUsersFirstWins(n) ==
    IF n = 0 THEN EmptyMap
    ELSE SpreadMap(getToDosForUser(UserOrder[n]).todos, ReduceUsersFirstWins(n - 1))

allToDosFirstWins == ReduceUsersFirstWins(Len(UserOrder))

\* static get allToDos()
allToDos == ReduceUsers(Len(UserOrder))

\* this.allToDos[toDoId]: the own entry, else what the object inherits under
\* that name, else undefined
RelevantToDo(toDoId) ==
    IF toDoId \in DOMAIN allToDos THEN allToDos[toDoId]
    ELSE IF toDoId \in ObjectPrototypeNames THEN InheritedMember
    ELSE UndefinedToDo

----------------------------------------------------------------------------
(* ToDoListData: the objects the write side builds *)

NewToDoCallerWins(userId, toDoData, newId) ==
    Spread(Obj(newId, userId, Absent, "false"), toDoData)

\* { isDone: false, ...toDoData, id: foundry.utils.randomID(16), userId }
NewToDo(userId, toDoData, newId) ==
    Spread(Spread(Obj(Absent, Absent, Absent, "false"), toDoData),
           Obj(newId, userId, Absent, Absent))

NewToDosByUser(newToDo) == newToDo.userId :> newToDo

\* { [newToDo.id]: newToDo }
NewToDos(newToDo) == newToDo.id :> newToDo

UpdateWholeCollection(toDoId, updateData) ==
    SpreadMap(getToDosForUser(RelevantToDo(toDoId).userId).todos,
              toDoId :> updateData)

\* { [toDoId]: updateData }
Update(toDoId, updateData) == toDoId :> updateData

KeyDeletionByNull(toDoId) == toDoId :> Null

\* { [`-=${toDoId}`]: null }
KeyDeletion(toDoId) == DeletionKey(toDoId) :> Null

----------------------------------------------------------------------------
(* Writes in flight *)

\* A setFlag call that was made: the store it goes to, the value, and the call
\* it comes from (kind, id, arg). `after` collects the effects of the writes to
\* the same store that were in flight with it and were applied before it.
Write(seq, kind, user, payload, id, arg) ==
    [seq |-> seq, kind |-> kind, user |-> user, payload |-> payload,
     id |-> id, arg |-> arg, after |-> {}]

\* What the call behind w meant to do, key by key: set a record or remove the
\* key. createToDo and updateUserToDos hand over a whole mapping; updateToDo
\* and deleteToDo name one id.
Effects(w) ==
    IF w.kind \in {"createToDo", "updateUserToDos"}
    THEN {[id |-> k, del |-> FALSE, rec |-> w.payload[k], kind |-> w.kind] :
              k \in {x \in DOMAIN w.payload : ~IsDeletionKey(x)}}
         \cup {[id |-> n, del |-> TRUE, rec |-> Null, kind |-> w.kind] :
              n \in {x \in KeyNames : DeletionKey(x) \in DOMAIN w.payload}}
    ELSE IF w.kind = "deleteToDo"
    THEN {[id |-> w.id, del |-> TRUE, rec |-> Null, kind |-> w.kind]}
    ELSE {[id |-> w.id, del |-> FALSE, rec |-> w.arg, kind |-> w.kind]}

Targets(w) == {e.id : e \in Effects(w)}

NoWrite == Write(0, "none", Absent, EmptyMap, Absent, EmptyObj)

Call(op, user, id, data, res, w) ==
    [op |-> op, user |-> user, id |-> id, data |-> data, res |-> res, w |-> w]

\* game.users.get(userId)?.setFlag(ToDoList.ID, ToDoList.FLAGS.TODOS, value):
\* undefined when there is no such user, else the promise of a write in flight
\* (at most MaxPending of them at a time).
OptionalSetFlag(op, userId, id, data, value) ==
    IF HasUser(userId)
    THEN LET w == Write(ops + 1, op, userId, value, id, data)
         IN /\ Cardinality(pending) < MaxPending
            /\ pending' = pending \cup {w}
            /\ last' = Call(op, userId, id, data, "promise", w)
    ELSE /\ pending' = pending
         /\ last' = Call(op, userId, id, data, "undefined", NoWrite)

----------------------------------------------------------------------------
(* ToDoListData: the calls *)

Init ==
    /\ flags = [u \in Users |-> Undefined]
    /\ pending = {}
    /\ issued = {}
    /\ ops = 0
    /\ last = Call("init", Absent, Absent, EmptyObj, "undefined", NoWrite)

\* static createToDo(userId, toDoData); newId is what randomID returns: any id
\* it has not returned before ("Create a unique ID"), also when the user is
\* unknown and the record is never written.
createToDo(userId, toDoData, newId) ==
    /\ ops < MaxOps
    /\ newId \in Ids \ issued
    /\ LET newToDo == NewToDo(userId, toDoData, newId)
           newToDos == NewToDos(newToDo)
       IN OptionalSetFlag("createToDo", userId, newId, toDoData, newToDos)
    /\ issued' = issued \cup {newId}
    /\ ops' = ops + 1
    /\ UNCHANGED flags

\* static updateToDo(toDoId, updateData)
updateToDo(toDoId, updateData) ==
    /\ ops < MaxOps
    /\ LET relevantToDo == RelevantToDo(toDoId)
           update == Update(toDoId, updateData)
       IN IF IsNullish(relevantToDo)
          THEN \* relevantToDo.userId throws
               /\ pending' = pending
               /\ last' = Call("updateToDo", Absent, toDoId, updateData,
                               "TypeError", NoWrite)
          ELSE OptionalSetFlag("updateToDo", relevantToDo.userId, toDoId,
                               updateData, update)
    /\ ops' = ops + 1
    /\ UNCHANGED <<flags, issued>>

\* static updateUserToDos(userId, updateData)
updateUserToDos(userId, updateData) ==
    /\ ops < MaxOps
    /\ OptionalSetFlag("updateUserToDos", userId, Absent, EmptyObj, updateData)
    /\ ops' = ops + 1
    /\ UNCHANGED <<flags, issued>>

\* static deleteToDo(toDoId)
deleteToDo(toDoId) ==
    /\ ops < MaxOps
    /\ LET relevantToDo == RelevantToDo(toDoId)
           keyDeletion == KeyDeletion(toDoId)
       IN IF IsNullish(relevantToDo)
          THEN \* relevantToDo.userId throws
               /\ pending' = pending
               /\ last' = Call("deleteToDo", Absent, toDoId, EmptyObj,
                               "TypeError", NoWrite)
          ELSE OptionalSetFlag("deleteToDo", relevantToDo.userId, toDoId,
                               EmptyObj, keyDeletion)
    /\ ops' = ops + 1
    /\ UNCHANGED <<flags, issued>>

\* w, applied before v while both were in flight to the same store: v remembers
\* w's effects, the newest per key.
Remember(v, w) ==
    IF v.user = w.user
    THEN [v EXCEPT !.after = {e \in @ : e.id \notin Targets(w)} \cup Effects(w)]
    ELSE v

\* The store applies one of the writes in flight; its promise resolves.
setFlag(w) ==
    /\ w \in pending
    /\ flags' = [flags EXCEPT ![w.user] = MergeOnWrite(@, w.payload)]
    /\ pending' = {Remember(v, w) : v \in pending \ {w}}
    /\ last' = Call("setFlag", w.user, w.id, w.arg, "resolved", w)
    /\ UNCHANGED <<issued, ops>>

Next ==
    \/ \E userId \in UserArgs, toDoData \in ToDoData, newId \in Ids :
           createToDo(userId, toDoData, newId)
    \/ \E toDoId \in ToDoIdArgs, updateData \in ToDoData : updateToDo(toDoId, updateData)
    \/ \E userId \in UserArgs, updateData \in UserToDosData :
           updateUserToDos(userId, updateData)
    \/ \E toDoId \in ToDoIdArgs : deleteToDo(toDoId)
    \/ \E w \in pending : setFlag(w)

Spec == Init /\ [][Next]_vars

\* Only createToDo is called (and the store applies the writes).
NextCreate ==
    \/ \E userId \in UserArgs, toDoData \in ToDoData, newId \in Ids :
           createToDo(userId, toDoData, newId)
    \/ \E w \in pending : setFlag(w)

SpecCreate == Init /\ [][NextCreate]_vars

----------------------------------------------------------------------------
(* Vocabulary of the properties *)

ToDos(u) == flags[u].todos
Keys(u) == DOMAIN ToDos(u)
AllKeys == UNION {Keys(u) : u \in Users}
Holders(k) == {u \in Users : k \in Keys(u)}

\* The effect e is what user u's collection shows.
Shows(u, e) ==
    IF e.del THEN e.id \notin Keys(u)
    ELSE e.id \in Keys(u) /\ ToDos(u)[e.id] = e.rec

\* The state was produced by the store applying a write that `kind` issued.
Applied(kind) == last.op = "setFlag" /\ last.w.kind = kind

\* The state was produced by a call of `op` that returned without a write.
ReturnedUndefined(op) == last.op = op /\ last.res = "undefined"

\* The last user of game.users, in iteration order, whose collection has key k.
LastHolder(k) ==
    UserOrder[CHOOSE i \in 1..Len(UserOrder) :
        /\ k \in Keys(UserOrder[i])
        /\ \A j \in (i + 1)..Len(UserOrder) : k \notin Keys(UserOrder[j])]

----------------------------------------------------------------------------
(* C1 *)

\* C1: updateToDo(id, data) and deleteToDo(id) with an id that is a key of no
\* user's collection do not throw and cause no write to any collection. (The
\* code throws unless the id names a member every object inherits.)
C1_UnknownIdIsNoOp ==
    (last.op \in {"updateToDo", "deleteToDo"} /\ last.id \notin AllKeys)
        => (last.res # "TypeError" /\ last.w = NoWrite)

----------------------------------------------------------------------------
(* C2 *)

\* The record createToDo builds from (userId, toDoData, newId) is r.
IsCreatedRecord(r, userId, toDoData, newId) ==
    /\ r.id = newId
    /\ r.userId = userId
    /\ r.isDone = (IF toDoData.isDone # Absent THEN toDoData.isDone ELSE "false")
    /\ r.label = toDoData.label

\* C2: createToDo(U, toDoData) for a known user U writes, and the store then
\* holds, under the id the generator produced for the call, a record with that
\* id, userId U, isDone as supplied or else false, and the other fields as
\* supplied, also when toDoData carries id, userId or isDone itself.
C2_CreatedRecord ==
    /\ (last.op = "createToDo" /\ last.res = "promise") =>
          /\ DOMAIN last.w.payload = {last.id}
          /\ IsCreatedRecord(last.w.payload[last.id], last.user, last.data, last.id)
    /\ Applied("createToDo") =>
          /\ last.id \in Keys(last.user)
          /\ IsCreatedRecord(ToDos(last.user)[last.id], last.user, last.data, last.id)

C2_Witness ==
    /\ Applied("createToDo")
    /\ last.data = Obj("b", "u2", "y", "true")
    /\ last.user = "u1"
    /\ last.id = "a"
    /\ "a" \in Keys("u1")
    /\ ToDos("u1")["a"] = Obj("a", "u1", "y", "true")

----------------------------------------------------------------------------
(* C3 *)

C3_StoredUnderOwnDistinctIds ==
    /\ \A u \in Users : \A k \in Keys(u) : ToDos(u)[k].id = k
    /\ \A u, v \in Users : u # v => Keys(u) \cap Keys(v) = {}

C3_CreateStep ==
    (last'.op = "setFlag" /\ last'.w.kind = "createToDo") =>
        LET u == last'.user
            k == last'.id
        IN /\ k \in DOMAIN flags'[u].todos
           /\ IsCreatedRecord(flags'[u].todos[k], u, last'.data, k)
           /\ Cardinality({j \in DOMAIN flags'[u].todos :
                              flags'[u].todos[j] = flags'[u].todos[k]}) = 1
           /\ \A j \in Keys(u) :
                  j \in DOMAIN flags'[u].todos /\ flags'[u].todos[j] = ToDos(u)[j]
           /\ \A v \in Users \ {u} : flags'[v] = flags[v]

\* C3: when only createToDo is called (the generator never repeating an id),
\* every applied create write leaves the new record in the user's collection
\* exactly once, under its own id, keeps every record the collection had, and
\* all records stored so far have pairwise distinct ids.
C3_CreatePreserves == []C3_StoredUnderOwnDistinctIds /\ [][C3_CreateStep]_vars

C3_Witness ==
    /\ Applied("createToDo")
    /\ Cardinality(Keys(last.user)) = 2

----------------------------------------------------------------------------
(* C4 *)

\* C4 as stated: allToDos holds exactly the entries of the users' collections.
C4_AggregationIsUnion ==
    /\ DOMAIN allToDos = AllKeys
    /\ \A u \in Users : \A k \in Keys(u) : allToDos[k] = ToDos(u)[k]

\* C4 amended: allToDos has exactly the keys of the known users' collections
\* (a user without a stored collection adds none), each with the record of the
\* last user in iteration order that holds the key; a created todo is a key of
\* it once its write is applied.
C4_AggregationLastUserWins ==
    /\ DOMAIN allToDos = AllKeys
    /\ \A k \in AllKeys : allToDos[k] = ToDos(LastHolder(k))[k]
    /\ Applied("createToDo") => last.id \in DOMAIN allToDos

C4_Witness ==
    \E k \in Ids :
        /\ Holders(k) = Users
        /\ ToDos("u1")[k] # ToDos("u2")[k]
        /\ allToDos[k] = ToDos("u2")[k]

----------------------------------------------------------------------------
(* C5 *)

\* C5: once updateToDo(id, updateData) on an existing id has completed (its
\* write applied, or the call returned without one), every collection that
\* holds id has updateData there.
C5_UpdateReplaces ==
    /\ ReturnedUndefined("updateToDo") =>
          \A u \in Holders(last.id) : ToDos(u)[last.id] = last.data
    /\ Applied("updateToDo") =>
          \A u \in Holders(last.id) : ToDos(u)[last.id] = last.data

----------------------------------------------------------------------------
(* C6 *)

\* C6: once deleteToDo(id) on an existing id has completed (its write applied,
\* or the call returned without one), id is in no collection and not in the
\* aggregation.
C6_DeleteRemoves ==
    /\ ReturnedUndefined("deleteToDo") =>
          (Holders(last.id) = {} /\ last.id \notin DOMAIN allToDos)
    /\ Applied("deleteToDo") =>
          (Holders(last.id) = {} /\ last.id \notin DOMAIN allToDos)

----------------------------------------------------------------------------
(* C7 *)

\* C7: every record stored under key k in user U's collection has id = k and
\* userId = U.
C7_IdAndOwnerImmutable ==
    \A u \in Users : \A k \in Keys(u) :
        ToDos(u)[k].id = k /\ ToDos(u)[k].userId = u

----------------------------------------------------------------------------
(* C8 *)

C8_UnknownUserCall ==
    last.op \in {"createToDo", "updateUserToDos"} /\ ~HasUser(last.user)

C8_UnknownUserStep ==
    (ops' = ops + 1 /\ last'.op \in {"createToDo", "updateUserToDos"}
        /\ ~HasUser(last'.user))
      => (flags' = flags /\ pending' = pending)

\* C8: createToDo and updateUserToDos for an unknown user return undefined
\* without throwing and without a write, leaving every collection as it was;
\* getToDosForUser of an unknown user is undefined, not an empty mapping.
C8_UnknownUser ==
    /\ [](C8_UnknownUserCall => (last.res = "undefined" /\ last.w = NoWrite))
    /\ [](getToDosForUser(UnknownUser) = Undefined)
    /\ [][C8_UnknownUserStep]_vars

C8_Witness ==
    /\ last.op = "createToDo"
    /\ last.user = UnknownUser
    /\ last.res = "undefined"
    /\ \E u \in Users : Keys(u) # {}

----------------------------------------------------------------------------
(* C9 *)

C9Kinds == {"createToDo", "updateToDo", "updateUserToDos"}

\* C9: when a write of createToDo, updateToDo or updateUserToDos is applied
\* after writes to the same collection that were in flight with it, the
\* collection shows its own effect on every id it targets (the last write to
\* an id wins) and still shows the effects of the earlier writes on the ids it
\* does not target (writes to distinct ids are both kept).
C9_ConcurrentWrites ==
    (last.op = "setFlag" /\ last.w.kind \in C9Kinds) =>
        /\ \A e \in Effects(last.w) : Shows(last.user, e)
        /\ \A p \in last.w.after :
               p.id \notin Targets(last.w) => Shows(last.user, p)

C9_Witness ==
    /\ last.op = "setFlag"
    /\ last.w.kind = "updateToDo"
    /\ \E p \in last.w.after :
           /\ p.kind = "updateUserToDos"
           /\ p.id # last.id
           /\ ~p.del
           /\ Shows(last.user, p)
    /\ ToDos(last.user)[last.id] = last.data

----------------------------------------------------------------------------
(* C10 *)

\* The write just applied is of updateToDo or deleteToDo on an id, and the
\* write of the other call on the same id, in flight with it, was applied
\* before it.
C10_BothApplied ==
    /\ last.op = "setFlag"
    /\ \/ /\ last.w.kind = "updateToDo"
          /\ \E p \in last.w.after : p.id = last.id /\ p.kind = "deleteToDo"
       \/ /\ last.w.kind = "deleteToDo"
          /\ \E p \in last.w.after : p.id = last.id /\ p.kind = "updateToDo"

\* C10 as stated: after both writes are applied the id is gone.
C10_DeletedStaysDeleted ==
    C10_BothApplied =>
        (last.id \notin Keys(last.user) /\ last.id \notin DOMAIN allToDos)

\* C10 amended: the write applied last decides. With the delete last the id is
\* gone from the owner's collection (and from the aggregation unless another
\* user holds it); with the update last the id is there again, with the
\* update's record.
C10_LastWriteDecides ==
    C10_BothApplied =>
        IF last.w.kind = "deleteToDo"
        THEN /\ last.id \notin Keys(last.user)
             /\ (Holders(last.id) = {} => last.id \notin DOMAIN allToDos)
        ELSE /\ last.id \in Keys(last.user)
             /\ ToDos(last.user)[last.id] = last.data
             /\ last.id \in DOMAIN allToDos

C10_Witness ==
    /\ C10_BothApplied
    /\ last.w.kind = "updateToDo"
    /\ last.id \in Keys(last.user)

====
